---- MODULE Spec2Model ----
(***************************************************************************)
(* Model of the retrieval-augmented generation backend:                    *)
(*   - chunk_text (scripts/process_pdf_to_pinecone.py), the chunker;       *)
(*   - main / generate_embeddings / store_in_pinecone, the ingestion run;  *)
(*   - PineconeRetriever (api/rag/chatbot.py), the retriever;              *)
(*   - chatbot_query (api/views.py) with get_chatbot and                   *)
(*     get_openai_client (api/rag/chatbot.py), the query endpoint.         *)
(* Each part has its own specification; the variables of the other parts   *)
(* stay at their idle values.                                              *)
(***************************************************************************)
EXTENDS Integers, Sequences, FiniteSets, TLC

(***************************************************************************)
(* Bounds of the model.                                                    *)
(***************************************************************************)
MaxLen == 6
MaxChunkSize == 5
MaxIter == 7
MaxBatches == 2
MaxK == 2
MaxQueries == 2
MaxHits == 2
MaxRequests == 2
MaxMarks == 2

VARIABLES
    \* chunk_text
    text, chunk_size, overlap, start, chunk_index, chunks, cpc, scanned,
    \* the ingestion run (main, generate_embeddings, store_in_pinecone)
    env, index_exists, index_dim, ipc, n_chunks, dimension, embed_i, embeddings,
    store_dimension, upsert_sent, upsert_done, exit_code,
    \* PineconeRetriever: the server's environment and the live index, the
    \* fields of the retriever, the locals of forward
    server_env, live_dimension, rpc, self_k, index_dimension, embedding_model,
    k_arg, n_queries, k, done_queries, query_embedding, queried, all_passages,
    passages, failures,
    \* the query endpoint: settings.DEBUG, the two module globals of
    \* api/rag/chatbot.py and how many objects were constructed for each, and,
    \* per request, the position of its handler, its question, the chatbot and
    \* the client it obtained, the calls it attempted, the exception raised
    \* in its try block and its response
    DEBUG, _chatbot_instance, _openai_client, chatbots_built, clients_built,
    hpc, question, chatbot, openai_client, attempted, raised, response

chunkVars == <<text, chunk_size, overlap, start, chunk_index, chunks, cpc, scanned>>

ingestVars == <<env, index_exists, index_dim, ipc, n_chunks, dimension, embed_i,
                embeddings, store_dimension, upsert_sent, upsert_done, exit_code>>

retrieverVars == <<server_env, live_dimension, rpc, self_k, index_dimension,
                   embedding_model, k_arg, n_queries, k, done_queries,
                   query_embedding, queried, all_passages, passages, failures>>

serverVars == <<DEBUG, _chatbot_instance, _openai_client, chatbots_built,
                clients_built, hpc, question, chatbot, openai_client, attempted,
                raised, response>>

vars == <<chunkVars, ingestVars, retrieverVars, serverVars>>

\* What the actions of one part leave alone.
notChunk == <<ingestVars, retrieverVars, serverVars>>
notIngest == <<chunkVars, retrieverVars, serverVars>>
notRetriever == <<chunkVars, ingestVars, serverVars>>
notServer == <<chunkVars, ingestVars, retrieverVars>>

(***************************************************************************)
(* Python built-ins used by the code, on sequences of characters.          *)
(***************************************************************************)
SP == " "
NL == "\n"
Chars == {"a", SP, NL}
Whitespace == {SP, NL}

max(a, b) == IF a >= b THEN a ELSE b
min(a, b) == IF a <= b THEN a ELSE b

\* A slice bound as Python normalises it: negative bounds count from the end,
\* and everything is clamped to 0..n.
PyIdx(i, n) ==
    IF i < 0 THEN (IF i + n < 0 THEN 0 ELSE i + n)
    ELSE (IF i > n THEN n ELSE i)

\* s[lo:hi]
Slice(s, lo, hi) ==
    LET l == PyIdx(lo, Len(s))
        h == PyIdx(hi, Len(s))
    IN  IF l >= h THEN <<>> ELSE SubSeq(s, l + 1, h)

\* s.rfind(ch): the highest 0-based index of ch in s, or -1
rfind(s, ch) ==
    IF \A i \in 1..Len(s) : s[i] # ch THEN -1
    ELSE (CHOOSE i \in 1..Len(s) :
              s[i] = ch /\ \A j \in (i + 1)..Len(s) : s[j] # ch) - 1

\* s.strip()
strip(s) ==
    IF \A i \in 1..Len(s) : s[i] \in Whitespace THEN <<>>
    ELSE SubSeq(s,
                CHOOSE i \in 1..Len(s) :
                    s[i] \notin Whitespace /\ \A j \in 1..(i - 1) : s[j] \in Whitespace,
                CHOOSE i \in 1..Len(s) :
                    s[i] \notin Whitespace /\ \A j \in (i + 1)..Len(s) : s[j] \in Whitespace)

CHUNK_SIZE == 1000
CHUNK_OVERLAP == 200

Texts == UNION {[1..n -> Chars] : n \in 0..MaxLen}

(***************************************************************************)
(* chunk_text(text, chunk_size, overlap)                                   *)
(***************************************************************************)
\* Window with the adjusted end taken relative to the window, not to the text.
Window_RelativeEnd(t, cs, st) ==
    LET end0 == st + cs
        raw  == Slice(t, st, end0)
        cut_point == max(rfind(raw, SP), rfind(raw, NL))
    IN  IF end0 < Len(t) /\ 2 * cut_point > cs
        THEN [chunk_text |-> Slice(raw, 0, cut_point), end |-> cut_point]
        ELSE [chunk_text |-> raw, end |-> end0]

\* The window [start, end) after the word-boundary adjustment: its text and end.
Window(t, cs, st) ==
    LET end0 == st + cs
        raw  == Slice(t, st, end0)
        cut_point == max(rfind(raw, SP), rfind(raw, NL))
    IN  IF end0 < Len(t) /\ 2 * cut_point > cs
        THEN [chunk_text |-> Slice(raw, 0, cut_point), end |-> st + cut_point]
        ELSE [chunk_text |-> raw, end |-> end0]

\* NextStart off by one: the next window starts one character late.
NextStart_OffByOne(end, ov) == end - ov + 1

\* NextStart without the overlap: the next window starts where this one ends.
NextStart_NoOverlap(end, ov) == end

\* The start of the next window.
NextStart(end, ov) == end - ov

ChunkInit ==
    /\ text \in Texts
    /\ chunk_size \in 1..MaxChunkSize
    /\ overlap \in 0..MaxChunkSize
    /\ start = 0
    /\ chunk_index = 0
    /\ chunks = <<>>
    /\ scanned = <<>>
    /\ cpc = "while"

\* One iteration of the while loop. The break at the end of the body leaves
\* the loop exactly when the loop condition would: ChunkReturn takes both exits.
ChunkIter ==
    /\ cpc = "while"
    /\ start < Len(text)
    /\ Len(scanned) < MaxIter
    /\ LET w == Window(text, chunk_size, start)
       IN  /\ IF strip(w.chunk_text) # <<>>
              THEN /\ chunks' = Append(chunks,
                                  [text |-> strip(w.chunk_text),
                                   chunk_index |-> chunk_index,
                                   start |-> start,
                                   end |-> min(w.end, Len(text))])
                   /\ chunk_index' = chunk_index + 1
              ELSE UNCHANGED <<chunks, chunk_index>>
           /\ start' = NextStart(w.end, overlap)
           /\ scanned' = Append(scanned, [start |-> start, end |-> w.end])
    /\ UNCHANGED <<text, chunk_size, overlap, cpc>>
    /\ UNCHANGED notChunk

\* The loop is left: the chunks are returned.
ChunkReturn ==
    /\ cpc = "while"
    /\ start >= Len(text)
    /\ cpc' = "returned"
    /\ UNCHANGED <<text, chunk_size, overlap, start, chunk_index, chunks, scanned>>
    /\ UNCHANGED notChunk

ChunkIdle ==
    /\ text = <<>>
    /\ chunk_size = CHUNK_SIZE
    /\ overlap = CHUNK_OVERLAP
    /\ start = 0
    /\ chunk_index = 0
    /\ chunks = <<>>
    /\ scanned = <<>>
    /\ cpc = "idle"

ChunkNext == ChunkIter \/ ChunkReturn

(***************************************************************************)
(* The end-to-end chunking scenario: a document text of 2500 characters    *)
(* chunked with the defaults. The texts are letters with up to MaxMarks    *)
(* whitespace characters (spaces, newlines or both) at offsets that are    *)
(* multiples of 200, followed or not by 200 characters of whitespace.      *)
(***************************************************************************)
SCENARIO_LENGTH == 2500
MARK_STEP == 200

MarkOffsets == {o \in 0..(SCENARIO_LENGTH - 1) : o % MARK_STEP = 0}

MarkSets ==
    {{}} \cup UNION {{{m[i] : i \in 1..n} : m \in [1..n -> MarkOffsets]} : n \in 1..MaxMarks}

\* The whitespace character at offset o: a space, a newline, or spaces and
\* newlines in turn.
MarkChar(kind, o) ==
    IF kind = "mixed" THEN (IF (o \div MARK_STEP) % 2 = 0 THEN SP ELSE NL) ELSE kind

ScenarioText(marks, kind, blank_tail) ==
    [i \in 1..SCENARIO_LENGTH |->
        IF (i - 1) \in marks \/ (blank_tail /\ i - 1 >= SCENARIO_LENGTH - MARK_STEP)
        THEN MarkChar(kind, i - 1)
        ELSE "a"]

ScenarioTexts ==
    {ScenarioText(marks, kind, blank_tail) :
        marks \in MarkSets, kind \in {SP, NL, "mixed"}, blank_tail \in BOOLEAN}

ScenarioInit ==
    /\ text \in ScenarioTexts
    /\ chunk_size = CHUNK_SIZE
    /\ overlap = CHUNK_OVERLAP
    /\ start = 0
    /\ chunk_index = 0
    /\ chunks = <<>>
    /\ scanned = <<>>
    /\ cpc = "while"

(***************************************************************************)
(* The ingestion run: main, generate_embeddings, store_in_pinecone.        *)
(* An embedding is modelled by its length; a chunk by its chunk_index.     *)
(***************************************************************************)
SMALL == "text-embedding-3-small"
LARGE == "text-embedding-3-large"
UNSET == "unset"

DIM_1024 == 1024
DIM_1536 == 1536
DIM_3072 == 3072
Dims == {DIM_1024, DIM_1536, DIM_3072}

BATCH_SIZE == 100

\* The numbers of chunks tried: a few, and around the sub-batch boundaries.
ChunkCounts == {1, 2} \cup {BATCH_SIZE * b + d : b \in 1..MaxBatches, d \in {0, 1}}

\* The length of the embeddings a model produces when no dimensions are asked for.
NativeDimension(model) == IF model = LARGE THEN DIM_3072 ELSE DIM_1536

get_embedding_model_for_dimension(d) ==
    IF d = DIM_1536 THEN SMALL
    ELSE IF d = DIM_3072 THEN LARGE
    ELSE IF d = DIM_1024 THEN SMALL
    ELSE SMALL

\* What embeddings.create is asked for by generate_embeddings, as the length of
\* the embeddings a well-behaved provider returns.
RequestedDimension(d, env_model) ==
    LET model == IF env_model = UNSET
                 THEN get_embedding_model_for_dimension(d)
                 ELSE env_model
    IN  IF d = DIM_1024 THEN DIM_1024 ELSE NativeDimension(model)

\* The responses of the provider to a batch of m texts that asks for length d:
\* m embeddings of length d, or the same with the first or the last embedding
\* of another length, or one embedding too few.
ProviderResponses(m, d) ==
    {[i \in 1..m |-> d]}
    \cup {[i \in 1..m |-> IF i = j THEN o ELSE d] : j \in {1, m}, o \in Dims \ {d}}
    \cup {[i \in 1..(m - 1) |-> d]}

IngestInit ==
    /\ env \in [OPENAI_EMBEDDING_MODEL : {UNSET, SMALL, LARGE},
                PINECONE_EMBEDDING_DIMENSION : Dims]
    /\ index_exists \in BOOLEAN
    /\ index_dim \in IF index_exists THEN Dims ELSE {0}
    /\ ipc = "start"
    /\ n_chunks = 0
    /\ dimension = 0
    /\ embed_i = 0
    /\ embeddings = <<>>
    /\ store_dimension = 0
    /\ upsert_sent = <<>>
    /\ upsert_done = 0
    /\ exit_code = -1

IngestIdle ==
    /\ env = [OPENAI_EMBEDDING_MODEL |-> UNSET, PINECONE_EMBEDDING_DIMENSION |-> DIM_1536]
    /\ index_exists = FALSE
    /\ index_dim = 0
    /\ ipc = "idle"
    /\ n_chunks = 0
    /\ dimension = 0
    /\ embed_i = 0
    /\ embeddings = <<>>
    /\ store_dimension = 0
    /\ upsert_sent = <<>>
    /\ upsert_done = 0
    /\ exit_code = -1

\* sys.exit(1), or an exception nobody catches
Exit1 ==
    /\ ipc' = "exited"
    /\ exit_code' = 1

\* main up to the chunking: the environment, the PDF, its text, its chunks.
\* A text that is not blank gives at least one chunk.
MainPrepare ==
    /\ ipc = "start"
    /\ \E missing_vars, pdf_exists, extracted, blank \in BOOLEAN :
         IF missing_vars \/ ~pdf_exists \/ ~extracted \/ blank
         THEN Exit1 /\ UNCHANGED n_chunks
         ELSE /\ \E n \in ChunkCounts : n_chunks' = n
              /\ ipc' = "resolve"
              /\ UNCHANGED exit_code
    /\ UNCHANGED <<env, embed_i, index_exists, index_dim, dimension, embeddings,
                   store_dimension, upsert_sent, upsert_done>>
    /\ UNCHANGED notIngest

\* main: the dimension of the existing index, or the configured one.
MainResolveDimension ==
    /\ ipc = "resolve"
    /\ \/ /\ dimension' = IF index_exists THEN index_dim
                          ELSE env.PINECONE_EMBEDDING_DIMENSION
          /\ ipc' = "embed"
          /\ UNCHANGED exit_code
       \/ Exit1 /\ UNCHANGED dimension
    /\ UNCHANGED <<env, embed_i, index_exists, index_dim, n_chunks, embeddings,
                   store_dimension, upsert_sent, upsert_done>>
    /\ UNCHANGED notIngest

\* generate_embeddings: the sub-batch texts[i:i + BATCH_SIZE].
GenerateEmbeddingsBatch ==
    /\ ipc = "embed"
    /\ embed_i < n_chunks
    /\ LET m == min(BATCH_SIZE, n_chunks - embed_i)
           d == RequestedDimension(dimension, env.OPENAI_EMBEDDING_MODEL)
       IN  \/ \E batch_embeddings \in ProviderResponses(m, d) :
                /\ embeddings' = embeddings \o batch_embeddings
                /\ embed_i' = embed_i + BATCH_SIZE
                /\ ipc' = IF embed_i + BATCH_SIZE >= n_chunks
                          THEN "verify" ELSE "embed"
                /\ UNCHANGED exit_code
           \/ Exit1 /\ UNCHANGED <<embeddings, embed_i>>
    /\ UNCHANGED <<env, index_exists, index_dim, n_chunks, dimension,
                   store_dimension, upsert_sent, upsert_done>>
    /\ UNCHANGED notIngest

\* main: the count of the embeddings and the length of the first one.
FirstEmbeddingMatches(embs, d) == embs = <<>> \/ embs[1] = d

MainVerify ==
    /\ ipc = "verify"
    /\ IF Len(embeddings) # n_chunks \/ ~FirstEmbeddingMatches(embeddings, dimension)
       THEN Exit1
       ELSE ipc' = "store" /\ UNCHANGED exit_code
    /\ UNCHANGED <<env, embed_i, index_exists, index_dim, n_chunks, dimension, embeddings,
                   store_dimension, upsert_sent, upsert_done>>
    /\ UNCHANGED notIngest

\* store_in_pinecone up to the upserts: the check of the first embedding, then
\* the index is created with the configured dimension or described.
StoreStart ==
    /\ ipc = "store"
    /\ IF ~FirstEmbeddingMatches(embeddings, dimension)
       THEN Exit1 /\ UNCHANGED <<index_exists, index_dim, store_dimension>>
       ELSE \/ /\ IF index_exists
                  THEN /\ store_dimension' = index_dim
                       /\ UNCHANGED <<index_exists, index_dim>>
                  ELSE /\ store_dimension' = env.PINECONE_EMBEDDING_DIMENSION
                       /\ index_exists' = TRUE
                       /\ index_dim' = env.PINECONE_EMBEDDING_DIMENSION
               /\ IF embeddings # <<>> /\ Len(embeddings) = n_chunks
                  THEN ipc' = "upsert" /\ UNCHANGED exit_code
                  ELSE Exit1
            \/ Exit1 /\ UNCHANGED <<index_exists, index_dim, store_dimension>>
    /\ UNCHANGED <<env, embed_i, n_chunks, dimension, embeddings, upsert_sent, upsert_done>>
    /\ UNCHANGED notIngest

\* The vectors of the sub-batch that starts after `done` vectors.
UpsertBatch(embs, done) ==
    [i \in 1..min(BATCH_SIZE, Len(embs) - done) |->
        [chunk_index |-> done + i - 1, values |-> embs[done + i]]]

\* The except clause of the upsert loop, had it printed the error and tried
\* the sub-batch again.
UpsertFailed_Retry == UNCHANGED <<ipc, exit_code, upsert_done>>

\* The except clause of the upsert loop: the error is printed and the run
\* exits with status 1; the sub-batch is not stored.
UpsertFailed == Exit1 /\ UNCHANGED upsert_done

\* store_in_pinecone: one sub-batch is handed to index.upsert, which stores it
\* or raises.
StoreUpsertBatch ==
    /\ ipc = "upsert"
    /\ upsert_done < Len(embeddings)
    /\ LET batch == UpsertBatch(embeddings, upsert_done)
       IN  /\ upsert_sent' = upsert_sent \o batch
           /\ \/ /\ upsert_done' = upsert_done + Len(batch)
                 /\ UNCHANGED <<ipc, exit_code>>
              \/ UpsertFailed
    /\ UNCHANGED <<env, embed_i, index_exists, index_dim, n_chunks, dimension, embeddings,
                   store_dimension>>
    /\ UNCHANGED notIngest

\* All sub-batches are stored: store_in_pinecone returns, main reports success.
MainSuccess ==
    /\ ipc = "upsert"
    /\ upsert_done >= Len(embeddings)
    /\ ipc' = "exited"
    /\ exit_code' = 0
    /\ UNCHANGED <<env, embed_i, index_exists, index_dim, n_chunks, dimension, embeddings,
                   store_dimension, upsert_sent, upsert_done>>
    /\ UNCHANGED notIngest

IngestNext ==
    \/ MainPrepare
    \/ MainResolveDimension
    \/ GenerateEmbeddingsBatch
    \/ MainVerify
    \/ StoreStart
    \/ StoreUpsertBatch
    \/ MainSuccess

(***************************************************************************)
(* PineconeRetriever: __init__ and forward.                                *)
(* A hit of the index is modelled by its metadata: None, an empty dict, a  *)
(* dict without a text field, or a dict with one. A query embedding is     *)
(* modelled by its length.                                                 *)
(***************************************************************************)
DEFAULT_K == 5
DEFAULT_INDEX_DIMENSION == 1536

\* k=None
None == -1

PassageTexts == {"", "a", "b"}

Hits == [metadata : {"None", "empty"}, has_text : {FALSE}, text : {""}]
        \cup [metadata : {"dict"}, has_text : {FALSE}, text : {""}]
        \cup [metadata : {"dict"}, has_text : {TRUE}, text : PassageTexts]

\* The sequences of at most n elements of S.
SeqsUpTo(S, n) == UNION {[1..m -> S] : m \in 0..n}

\* `match.metadata and "text" in match.metadata`
HasPassage(match) == match.metadata = "dict" /\ match.has_text

\* The texts that the matches of one result add to all_passages.
RECURSIVE ExtractPassages(_)
ExtractPassages(matches) ==
    IF matches = <<>> THEN <<>>
    ELSE (IF HasPassage(Head(matches)) THEN <<Head(matches).text>> ELSE <<>>)
         \o ExtractPassages(Tail(matches))

\* Unique that never records what it has seen: the duplicates stay.
Unique_NothingSeen(ps, seen) == ps

\* "Remove duplicates while preserving order", with the set of the texts seen.
RECURSIVE Unique(_, _)
Unique(ps, seen) ==
    IF ps = <<>> THEN <<>>
    ELSE IF Head(ps) \in seen THEN Unique(Tail(ps), seen)
    ELSE <<Head(ps)>> \o Unique(Tail(ps), seen \cup {Head(ps)})

\* `k or self.k`
EffectiveK(karg, selfk) == IF karg = None \/ karg = 0 THEN selfk ELSE karg

\* The length of the embedding that forward asks the provider for.
QueryEmbeddingLength(index_dimension_, embedding_model_) ==
    IF index_dimension_ = DIM_1024 THEN DIM_1024
    ELSE NativeDimension(embedding_model_)

\* AfterFailure that gives up the sub-query and goes on with the next one.
AfterFailure_Skip(done, n) == IF done + 1 >= n THEN "dedup" ELSE "embed"

\* Where forward goes when the embedding or the query of a sub-query fails:
\* both handlers raise ValueError.
AfterFailure(done, n) == "raised"

\* Where forward goes after a sub-query.
AfterQuery(done, n) == IF done >= n THEN "dedup" ELSE "embed"

RetrieverInit ==
    /\ server_env \in [OPENAI_EMBEDDING_MODEL : {UNSET, LARGE}]
    /\ live_dimension \in Dims
    /\ rpc = "new"
    /\ self_k = 0
    /\ index_dimension = 0
    /\ embedding_model = UNSET
    /\ k_arg = None
    /\ n_queries = 0
    /\ k = 0
    /\ done_queries = 0
    /\ query_embedding = 0
    /\ queried = <<>>
    /\ all_passages = <<>>
    /\ passages = <<>>
    /\ failures = 0

RetrieverIdle ==
    /\ server_env = [OPENAI_EMBEDDING_MODEL |-> UNSET]
    /\ live_dimension = DIM_1536
    /\ rpc = "idle"
    /\ self_k = 0
    /\ index_dimension = 0
    /\ embedding_model = UNSET
    /\ k_arg = None
    /\ n_queries = 0
    /\ k = 0
    /\ done_queries = 0
    /\ query_embedding = 0
    /\ queried = <<>>
    /\ all_passages = <<>>
    /\ passages = <<>>
    /\ failures = 0

\* PineconeRetriever.__init__ with the default k, as RAGChatbot calls it.
RetrieverConstruct ==
    /\ rpc = "new"
    /\ \E api_key_set, described \in BOOLEAN :
         IF ~api_key_set
         THEN /\ rpc' = "init_raised"
              /\ UNCHANGED <<self_k, embedding_model, index_dimension>>
         ELSE /\ rpc' = "ready"
              /\ self_k' = DEFAULT_K
              /\ embedding_model' =
                    IF server_env.OPENAI_EMBEDDING_MODEL = UNSET THEN SMALL
                    ELSE server_env.OPENAI_EMBEDDING_MODEL
              /\ index_dimension' =
                    IF described THEN live_dimension ELSE DEFAULT_INDEX_DIMENSION
    /\ UNCHANGED <<server_env, live_dimension, k_arg, n_queries, k, done_queries,
                   query_embedding, queried, all_passages, passages, failures>>
    /\ UNCHANGED notRetriever

\* forward(query_or_queries, k) is called: a string is one sub-query.
ForwardCall ==
    /\ rpc = "ready"
    /\ \E karg \in {None} \cup 0..MaxK, n \in 0..MaxQueries :
         /\ k_arg' = karg
         /\ n_queries' = n
         /\ k' = EffectiveK(karg, self_k)
         /\ rpc' = AfterQuery(0, n)
    /\ done_queries' = 0
    /\ all_passages' = <<>>
    /\ UNCHANGED <<server_env, live_dimension, self_k, index_dimension,
                   embedding_model, query_embedding, queried, passages, failures>>
    /\ UNCHANGED notRetriever

\* The embedding of one sub-query: the provider answers or the call fails.
ForwardEmbed ==
    /\ rpc = "embed"
    /\ \/ /\ query_embedding' = QueryEmbeddingLength(index_dimension, embedding_model)
          /\ rpc' = "query"
          /\ UNCHANGED failures
       \/ /\ failures' = failures + 1
          /\ rpc' = AfterFailure(done_queries, n_queries)
          /\ UNCHANGED query_embedding
    /\ UNCHANGED <<server_env, live_dimension, self_k, index_dimension,
                   embedding_model, k_arg, n_queries, k, done_queries, queried,
                   all_passages, passages>>
    /\ UNCHANGED notRetriever

\* index.query of one sub-query: at most top_k matches, whose texts are added
\* to all_passages, or the call fails.
ForwardQuery ==
    /\ rpc = "query"
    /\ queried' = Append(queried, query_embedding)
    /\ \/ \E matches \in SeqsUpTo(Hits, min(k, MaxHits)) :
            /\ all_passages' = all_passages \o ExtractPassages(matches)
            /\ done_queries' = done_queries + 1
            /\ rpc' = AfterQuery(done_queries + 1, n_queries)
            /\ UNCHANGED failures
       \/ /\ failures' = failures + 1
          /\ rpc' = AfterFailure(done_queries, n_queries)
          /\ UNCHANGED <<all_passages, done_queries>>
    /\ UNCHANGED <<server_env, live_dimension, self_k, index_dimension,
                   embedding_model, k_arg, n_queries, k, query_embedding, passages>>
    /\ UNCHANGED notRetriever

\* The duplicates are removed and the first k passages are returned.
ForwardReturn ==
    /\ rpc = "dedup"
    /\ passages' = Slice(Unique(all_passages, {}), 0, k)
    /\ rpc' = "returned"
    /\ UNCHANGED <<server_env, live_dimension, self_k, index_dimension,
                   embedding_model, k_arg, n_queries, k, done_queries,
                   query_embedding, queried, all_passages, failures>>
    /\ UNCHANGED notRetriever

RetrieverNext ==
    \/ RetrieverConstruct
    \/ ForwardCall
    \/ ForwardEmbed
    \/ ForwardQuery
    \/ ForwardReturn

(***************************************************************************)
(* The query endpoint: views.chatbot_query with get_chatbot and            *)
(* get_openai_client (api/rag/chatbot.py). Every request is served by a    *)
(* thread of its own; the threads share the two module globals             *)
(* _chatbot_instance and _openai_client, which no lock protects, so a      *)
(* thread may be suspended between the test of a global and its            *)
(* assignment. Retrieval and generation are reduced to their outcome: the  *)
(* retriever itself is the part above.                                     *)
(***************************************************************************)
Requests == 1..MaxRequests

HTTP_200_OK == 200
HTTP_400_BAD_REQUEST == 400
HTTP_500_INTERNAL_SERVER_ERROR == 500

\* The strings a request may carry as its question.
QuestionStrings == {<<>>, <<SP>>, <<NL, SP>>, <<"a">>, <<SP, "a", NL>>}

\* request.data.get("question"): None when the field is missing or null, a
\* string, or a JSON value of another type. nonzero is the value of bool(): it
\* is False for None, len(s) > 0 for a string, and either for another value
\* (0 or 7, [] or ["a"]).
Questions ==
    {[type |-> "NoneType", text |-> <<>>, nonzero |-> FALSE]}
    \cup {[type |-> "str", text |-> s, nonzero |-> s # <<>>] : s \in QuestionStrings}
    \cup {[type |-> t, text |-> <<>>, nonzero |-> b] : t \in {"int", "list"}, b \in BOOLEAN}

NoError == ""

\* The checks of the question without the strip of the second one.
ValidationError_NoStrip(q) ==
    IF ~q.nonzero THEN "Question field is required"
    ELSE IF q.type # "str" THEN "Question must be a non-empty string"
    ELSE NoError

\* The two checks of the question: the message of the one that rejects it, or
\* NoError.
ValidationError(q) ==
    IF ~q.nonzero THEN "Question field is required"
    ELSE IF ~(q.type = "str") \/ strip(q.text) = <<>>
         THEN "Question must be a non-empty string"
    ELSE NoError

NoResponse == [status |-> 0, fields |-> {}, error |-> "", details |-> "absent"]

Response400(msg) ==
    [status |-> HTTP_400_BAD_REQUEST, fields |-> {"error"}, error |-> msg,
     details |-> "absent"]

Response200 ==
    [status |-> HTTP_200_OK, fields |-> {"answer", "sources"}, error |-> "",
     details |-> "absent"]

\* The response of the handlers with the trace included whatever DEBUG is.
Response500_AlwaysTrace(exc, debug) ==
    [status |-> HTTP_500_INTERNAL_SERVER_ERROR, fields |-> {"error", "details"},
     error |-> IF exc = "ValueError" THEN "str(e)"
               ELSE "An error occurred while processing your question: str(e)",
     details |-> "traceback"]

\* The response of the two except clauses: ValueError, and any other Exception.
Response500(exc, debug) ==
    [status |-> HTTP_500_INTERNAL_SERVER_ERROR, fields |-> {"error", "details"},
     error |-> IF exc = "ValueError" THEN "str(e)"
               ELSE "An error occurred while processing your question: str(e)",
     details |-> IF debug THEN "traceback" ELSE "null"]

NotRaised == [stage |-> "none", exc |-> "none"]

ServerInit ==
    /\ DEBUG \in BOOLEAN
    /\ _chatbot_instance = None
    /\ _openai_client = None
    /\ chatbots_built = 0
    /\ clients_built = 0
    /\ question \in [Requests -> Questions]
    /\ hpc = [r \in Requests |-> "received"]
    /\ chatbot = [r \in Requests |-> None]
    /\ openai_client = [r \in Requests |-> None]
    /\ attempted = [r \in Requests |-> {}]
    /\ raised = [r \in Requests |-> NotRaised]
    /\ response = [r \in Requests |-> NoResponse]

ServerIdle ==
    /\ DEBUG = FALSE
    /\ _chatbot_instance = None
    /\ _openai_client = None
    /\ chatbots_built = 0
    /\ clients_built = 0
    /\ question = [r \in Requests |-> [type |-> "NoneType", text |-> <<>>, nonzero |-> FALSE]]
    /\ hpc = [r \in Requests |-> "idle"]
    /\ chatbot = [r \in Requests |-> None]
    /\ openai_client = [r \in Requests |-> None]
    /\ attempted = [r \in Requests |-> {}]
    /\ raised = [r \in Requests |-> NotRaised]
    /\ response = [r \in Requests |-> NoResponse]

\* An exception raised inside the try of chatbot_query at the given stage: one
\* of the two except clauses answers.
Fail(r, stage, exc) ==
    /\ hpc' = [hpc EXCEPT ![r] = "responded"]
    /\ raised' = [raised EXCEPT ![r] = [stage |-> stage, exc |-> exc]]
    /\ response' = [response EXCEPT ![r] = Response500(exc, DEBUG)]

\* chatbot_query up to the try: the question is read and checked.
Validate ==
    \E r \in Requests :
        /\ hpc[r] = "received"
        /\ LET err == ValidationError(question[r])
           IN  IF err # NoError
               THEN /\ hpc' = [hpc EXCEPT ![r] = "responded"]
                    /\ response' = [response EXCEPT ![r] = Response400(err)]
               ELSE /\ hpc' = [hpc EXCEPT ![r] = "get_chatbot"]
                    /\ UNCHANGED response
        /\ UNCHANGED <<DEBUG, _chatbot_instance, _openai_client, chatbots_built,
                       clients_built, question, chatbot, openai_client, attempted,
                       raised>>
        /\ UNCHANGED notServer

\* get_chatbot: the test of the global.
GetChatbot ==
    \E r \in Requests :
        /\ hpc[r] = "get_chatbot"
        /\ attempted' = [attempted EXCEPT ![r] = @ \cup {"get_chatbot"}]
        /\ IF _chatbot_instance # None
           THEN /\ chatbot' = [chatbot EXCEPT ![r] = _chatbot_instance]
                /\ hpc' = [hpc EXCEPT ![r] = "retrieve"]
           ELSE /\ hpc' = [hpc EXCEPT ![r] = "construct"]
                /\ UNCHANGED chatbot
        /\ UNCHANGED <<DEBUG, _chatbot_instance, _openai_client, chatbots_built,
                       clients_built, question, openai_client, raised, response>>
        /\ UNCHANGED notServer

\* get_chatbot: _chatbot_instance = RAGChatbot(). The constructor raises
\* ValueError when a setting is missing and lets any error of its clients
\* through; the global is assigned only when it returns.
ConstructChatbot ==
    \E r \in Requests :
        /\ hpc[r] = "construct"
        /\ attempted' = [attempted EXCEPT ![r] = @ \cup {"RAGChatbot"}]
        /\ \/ /\ chatbots_built' = chatbots_built + 1
              /\ _chatbot_instance' = chatbots_built + 1
              /\ chatbot' = [chatbot EXCEPT ![r] = chatbots_built + 1]
              /\ hpc' = [hpc EXCEPT ![r] = "retrieve"]
              /\ UNCHANGED <<raised, response>>
           \/ /\ \E exc \in {"ValueError", "Exception"} : Fail(r, "construction", exc)
              /\ UNCHANGED <<_chatbot_instance, chatbots_built, chatbot>>
        /\ UNCHANGED <<DEBUG, _openai_client, clients_built, question, openai_client>>
        /\ UNCHANGED notServer

\* RAGChatbot.query calls the retriever, whose forward calls
\* get_openai_client: the test of the global.
GetOpenAIClient ==
    \E r \in Requests :
        /\ hpc[r] = "retrieve"
        /\ attempted' = [attempted EXCEPT ![r] = @ \cup {"retrieval"}]
        /\ IF _openai_client # None
           THEN /\ openai_client' = [openai_client EXCEPT ![r] = _openai_client]
                /\ hpc' = [hpc EXCEPT ![r] = "search"]
           ELSE /\ hpc' = [hpc EXCEPT ![r] = "construct_client"]
                /\ UNCHANGED openai_client
        /\ UNCHANGED <<DEBUG, _chatbot_instance, _openai_client, chatbots_built,
                       clients_built, question, chatbot, raised, response>>
        /\ UNCHANGED notServer

\* get_openai_client: _openai_client = OpenAI(api_key=api_key), or ValueError
\* when the key is not set; forward raises any failure again as ValueError.
ConstructClient ==
    \E r \in Requests :
        /\ hpc[r] = "construct_client"
        /\ \/ /\ clients_built' = clients_built + 1
              /\ _openai_client' = clients_built + 1
              /\ openai_client' = [openai_client EXCEPT ![r] = clients_built + 1]
              /\ hpc' = [hpc EXCEPT ![r] = "search"]
              /\ UNCHANGED <<raised, response>>
           \/ /\ Fail(r, "retrieval", "ValueError")
              /\ UNCHANGED <<_openai_client, clients_built, openai_client>>
        /\ UNCHANGED <<DEBUG, _chatbot_instance, chatbots_built, question, chatbot,
                       attempted>>
        /\ UNCHANGED notServer

\* The rest of forward: the embedding of the question and the query of the
\* index; a failure of either is raised as ValueError.
Search ==
    \E r \in Requests :
        /\ hpc[r] = "search"
        /\ \/ /\ hpc' = [hpc EXCEPT ![r] = "generate"]
              /\ UNCHANGED <<raised, response>>
           \/ Fail(r, "retrieval", "ValueError")
        /\ UNCHANGED <<DEBUG, _chatbot_instance, _openai_client, chatbots_built,
                       clients_built, question, chatbot, openai_client, attempted>>
        /\ UNCHANGED notServer

\* The call of the language model (self.rag_module) and the response.
Generate ==
    \E r \in Requests :
        /\ hpc[r] = "generate"
        /\ attempted' = [attempted EXCEPT ![r] = @ \cup {"lm"}]
        /\ \/ /\ hpc' = [hpc EXCEPT ![r] = "responded"]
              /\ response' = [response EXCEPT ![r] = Response200]
              /\ UNCHANGED raised
           \/ \E exc \in {"ValueError", "Exception"} : Fail(r, "generation", exc)
        /\ UNCHANGED <<DEBUG, _chatbot_instance, _openai_client, chatbots_built,
                       clients_built, question, chatbot, openai_client>>
        /\ UNCHANGED notServer

ServerNext ==
    \/ Validate
    \/ GetChatbot
    \/ ConstructChatbot
    \/ GetOpenAIClient
    \/ ConstructClient
    \/ Search
    \/ Generate

(***************************************************************************)
(* Properties of chunk_text.                                               *)
(***************************************************************************)
ValidParams == chunk_size > overlap /\ overlap >= 0

\* The offsets of the text that lie in the [start, end) range of an emitted chunk.
Covered == {o \in 0..(Len(text) - 1) :
              \E i \in 1..Len(chunks) : chunks[i].start <= o /\ o < chunks[i].end}

\* A window that the word-boundary adjustment shortened.
Truncated(w) == w.end < w.start + chunk_size

\* C1: with overlap >= chunk_size chunk_text raises at once, before any window
\* is scanned: no window is ever scanned.
C1_InvalidOverlapRaises ==
    overlap >= chunk_size => scanned = <<>>

\* C2: with chunk_size > overlap >= 0 the loop terminates. The loop body is a
\* function of the window start alone, so the loop terminates exactly when it
\* never comes back to a window start it has scanned already.
C2_ChunkLoopTerminates ==
    ValidParams =>
        \A i, j \in 1..Len(scanned) : i < j => scanned[i].start # scanned[j].start

\* C3: with chunk_size > overlap >= 0 the start offsets and the end offsets of
\* the emitted chunks are non-decreasing in chunk_index order.
C3_ChunksMonotone ==
    ValidParams =>
        \A i, j \in 1..Len(chunks) :
            i < j => /\ chunks[i].chunk_index < chunks[j].chunk_index
                     /\ chunks[i].start <= chunks[j].start
                     /\ chunks[i].end <= chunks[j].end

C3_Witness ==
    /\ cpc = "returned"
    /\ ValidParams
    /\ overlap > 0
    /\ Len(chunks) >= 3
    /\ \E i \in 1..Len(scanned) : Truncated(scanned[i])

\* C4 as stated: with chunk_size > overlap >= 0 and a non-empty text, every
\* offset of the text lies in the range of an emitted chunk.
C4_ChunksCoverInput ==
    (cpc = "returned" /\ ValidParams /\ text # <<>>)
        => Covered = 0..(Len(text) - 1)

\* C4 amended: every offset that the scan has passed and that holds a character
\* other than whitespace lies in the range of an emitted chunk, so when
\* chunk_text returns all such offsets do; the offsets left out are whitespace
\* of discarded windows.
C4_ChunksCoverVisibleText ==
    (cpc \in {"while", "returned"} /\ ValidParams)
        => \A o \in 0..(Len(text) - 1) :
               (o < start /\ text[o + 1] \notin Whitespace) => o \in Covered

C4_Witness ==
    /\ cpc = "returned"
    /\ ValidParams
    /\ Len(chunks) >= 2
    /\ Len(scanned) > Len(chunks)
    /\ Covered # 0..(Len(text) - 1)
    /\ \E i \in 1..Len(scanned) : Truncated(scanned[i])

\* The number of characters the word-boundary adjustment took off the windows.
RECURSIVE TotalCut(_)
TotalCut(ws) ==
    IF ws = <<>> THEN 0
    ELSE (Head(ws).start + chunk_size - Head(ws).end) + TotalCut(Tail(ws))

FourChunks ==
    /\ Len(chunks) = 4
    /\ \A i \in 1..Len(chunks) : chunks[i].chunk_index = i - 1

\* C15 as stated: whatever the spaces and newlines of the text, chunk_text
\* returns exactly 4 chunks, with chunk_index 0 to 3.
C15_AlwaysFourChunks ==
    cpc = "returned" => FourChunks

\* C15: when no window is empty after trimming and the word-boundary
\* adjustment took no more than 4 * (chunk_size - overlap) - len(text) = 700
\* characters off the windows in total, chunk_text returns exactly 4 chunks,
\* with chunk_index 0 to 3; when it took more, there are more than 4 windows.
C15_FourChunksWhenCutsAreSmall ==
    cpc = "returned" =>
        /\ (/\ Len(chunks) = Len(scanned)
            /\ TotalCut(scanned) <= 4 * (chunk_size - overlap) - Len(text))
               => FourChunks
        /\ TotalCut(scanned) > 4 * (chunk_size - overlap) - Len(text)
               => Len(scanned) > 4

C15_Witness ==
    /\ cpc = "returned"
    /\ Len(text) = SCENARIO_LENGTH
    /\ Len(chunks) = Len(scanned)
    /\ TotalCut(scanned) > 0
    /\ TotalCut(scanned) <= 4 * (chunk_size - overlap) - Len(text)
    /\ FourChunks

(***************************************************************************)
(* Properties of the ingestion run.                                        *)
(***************************************************************************)
\* C5: every embedding handed to index.upsert has exactly the dimension of the
\* index, so after any embedding of another length was returned no vector is
\* handed over.
C5_UpsertedEmbeddingsHaveIndexDimension ==
    \A i \in 1..Len(upsert_sent) : upsert_sent[i].values = index_dim

\* C13: the vectors are handed to index.upsert in chunk order, each once, in
\* sub-batches of BATCH_SIZE (the last one may be shorter); once a sub-batch
\* has failed the run has exited with status 1 and nothing was sent after that
\* sub-batch, so the run never goes on to report success; the run has exited
\* with status 0 only when every sub-batch, hence every chunk, is stored.
C13_UpsertFailsFast ==
    /\ \A i \in 1..Len(upsert_sent) : upsert_sent[i].chunk_index = i - 1
    /\ upsert_done % BATCH_SIZE = 0 \/ upsert_done = Len(embeddings)
    /\ Len(upsert_sent) > upsert_done =>
           /\ ipc = "exited"
           /\ exit_code = 1
           /\ Len(upsert_sent) = min(upsert_done + BATCH_SIZE, Len(embeddings))
    /\ exit_code = 0 =>
           /\ upsert_done = n_chunks
           /\ Len(upsert_sent) = n_chunks
           /\ Len(embeddings) = n_chunks

C13_Witness ==
    /\ ipc = "exited"
    /\ exit_code = 1
    /\ n_chunks = 2 * BATCH_SIZE + 1
    /\ upsert_done = BATCH_SIZE
    /\ Len(upsert_sent) = 2 * BATCH_SIZE

(***************************************************************************)
(* Properties of PineconeRetriever.forward.                                *)
(***************************************************************************)
\* The position of the first occurrence of t in the candidates.
FirstPos(t) ==
    CHOOSE i \in 1..Len(all_passages) :
        all_passages[i] = t /\ \A j \in 1..(i - 1) : all_passages[j] # t

Candidates == {all_passages[i] : i \in 1..Len(all_passages)}

\* C6: every vector passed to index.query has the dimension of the live index.
C6_QueryVectorsHaveLiveDimension ==
    \A i \in 1..Len(queried) : queried[i] = live_dimension

\* C7: the passages returned are candidates, no two of them are equal, they are
\* in the order of their first occurrence among the candidates and none is
\* left out before the cut at k, so the first candidate comes first; the
\* candidates [a, b, a, c] give [a, b, c].
C7_PassagesUniqueInFirstSeenOrder ==
    rpc = "returned" =>
        /\ \A i \in 1..Len(passages) : passages[i] \in Candidates
        /\ \A i, j \in 1..Len(passages) :
               i < j => /\ passages[i] # passages[j]
                        /\ FirstPos(passages[i]) < FirstPos(passages[j])
        /\ Len(passages) = min(k, Cardinality(Candidates))
        /\ all_passages # <<>> => passages[1] = all_passages[1]
        /\ (all_passages = <<"a", "b", "a", "">> /\ k >= 3)
               => passages = <<"a", "b", "">>

C7_Witness ==
    /\ rpc = "returned"
    /\ n_queries = 2
    /\ all_passages = <<"a", "b", "a", "">>
    /\ passages = <<"a", "b", "">>

\* C8: with an explicitly requested k >= 0 at most k passages are returned.
C8_AtMostRequestedK ==
    (rpc = "returned" /\ k_arg # None) => Len(passages) <= k_arg

\* C9: no empty passage appears in the result.
C9_NoEmptyPassage ==
    \A i \in 1..Len(passages) : passages[i] # ""

\* C10: once the embedding or the query of a sub-query has failed, forward has
\* raised: it goes on to no other sub-query and returns no passages.
C10_FailureFailsForward ==
    failures > 0 => (rpc = "raised" /\ passages = <<>>)

C10_Witness ==
    /\ rpc = "raised"
    /\ failures = 1
    /\ n_queries = 2
    /\ done_queries = 1
    /\ all_passages # <<>>

(***************************************************************************)
(* Properties of the query endpoint.                                       *)
(***************************************************************************)
\* A question that is missing, not a string, or blank after trimming.
InvalidQuestion(q) ==
    \/ q.type = "NoneType"
    \/ q.type # "str"
    \/ \A i \in 1..Len(q.text) : q.text[i] \in Whitespace

\* C11: a request whose question is missing, not a string or blank after
\* trimming never gets to get_chatbot, to the construction of the chatbot, to
\* the retrieval or to the language model, and the response it gets is a 400
\* that carries an error message only.
C11_InvalidQuestionRejected ==
    \A r \in Requests :
        InvalidQuestion(question[r]) =>
            /\ attempted[r] = {}
            /\ hpc[r] \in {"received", "responded"}
            /\ hpc[r] = "responded" =>
                   /\ response[r].status = HTTP_400_BAD_REQUEST
                   /\ response[r].fields = {"error"}
                   /\ response[r].error # NoError

C11_Witness ==
    \E r1, r2 \in Requests :
        /\ question[r1] = [type |-> "str", text |-> <<NL, SP>>, nonzero |-> TRUE]
        /\ hpc[r1] = "responded"
        /\ response[r1].status = HTTP_400_BAD_REQUEST
        /\ attempted[r1] = {}
        /\ hpc[r2] = "responded"
        /\ response[r2].status = HTTP_200_OK
        /\ attempted[r2] = {"get_chatbot", "RAGChatbot", "retrieval", "lm"}

\* C12: a request in whose try block the construction of the chatbot, the
\* retrieval or the generation raised has been answered with a 500 that
\* carries an error message and neither answer nor sources; its details field
\* is the trace when DEBUG is on and null when it is off.
C12_FailureAnswered500 ==
    \A r \in Requests :
        raised[r].stage # "none" =>
            /\ hpc[r] = "responded"
            /\ response[r].status = HTTP_500_INTERNAL_SERVER_ERROR
            /\ "error" \in response[r].fields
            /\ response[r].error # NoError
            /\ response[r].fields \cap {"answer", "sources"} = {}
            /\ DEBUG => response[r].details = "traceback"
            /\ ~DEBUG => response[r].details = "null"

C12_Witness ==
    \E r1, r2 \in Requests :
        /\ ~DEBUG
        /\ raised[r1] = [stage |-> "generation", exc |-> "Exception"]
        /\ raised[r2] = [stage |-> "retrieval", exc |-> "ValueError"]
        /\ response[r1].status = HTTP_500_INTERNAL_SERVER_ERROR
        /\ response[r2].status = HTTP_500_INTERNAL_SERVER_ERROR
        /\ response[r1].details = "null"
        /\ response[r2].details = "null"

\* C14: the chatbot and the embedding client are constructed at most once
\* each, and all the requests that obtained one obtained the same one.
C14_SingletonsConstructedOnce ==
    /\ chatbots_built <= 1
    /\ clients_built <= 1
    /\ \A r1, r2 \in Requests :
           /\ (chatbot[r1] # None /\ chatbot[r2] # None) => chatbot[r1] = chatbot[r2]
           /\ (openai_client[r1] # None /\ openai_client[r2] # None)
                  => openai_client[r1] = openai_client[r2]

(***************************************************************************)
(* The specifications.                                                     *)
(***************************************************************************)
Init == ChunkInit /\ IngestIdle /\ RetrieverIdle /\ ServerIdle
Spec == Init /\ [][ChunkNext]_vars

IngestSpecInit == IngestInit /\ ChunkIdle /\ RetrieverIdle /\ ServerIdle
IngestSpec == IngestSpecInit /\ [][IngestNext]_vars

RetrieverSpecInit == RetrieverInit /\ ChunkIdle /\ IngestIdle /\ ServerIdle
RetrieverSpec == RetrieverSpecInit /\ [][RetrieverNext]_vars

ScenarioSpecInit == ScenarioInit /\ IngestIdle /\ RetrieverIdle /\ ServerIdle
ScenarioSpec == ScenarioSpecInit /\ [][ChunkNext]_vars

ServerSpecInit == ServerInit /\ ChunkIdle /\ IngestIdle /\ RetrieverIdle
ServerSpec == ServerSpecInit /\ [][ServerNext]_vars

====
